---- MODULE Spec2Model ----
(***************************************************************************)
(* Model of dbpprt/dieter: the command protocol parser                     *)
(* (src/src/browser_agent/commands.py), the session loop of the browser    *)
(* agent (src/src/browser_agent/agent.py) and the merge of OCR and         *)
(* detector boxes (src/src/omniparser/parser.py, utils/boxes.py).          *)
(*                                                                         *)
(* Text is modelled at the level the regular expressions of commands.py    *)
(* distinguish.  A model reply is a sequence of pieces: prose without      *)
(* angle brackets, an unrecognised bracketed substring, or one of the ten  *)
(* tags.  An attribute value is a sequence of characters over {a, b, >};   *)
(* none of them is a double quote, a slash or "<", so joining extracted    *)
(* substrings with a blank never completes a tag that was not in the       *)
(* reply.                                                                  *)
(***************************************************************************)
EXTENDS Integers, Sequences, FiniteSets, TLC

VARIABLES
    pc,                     \* position of BrowserAgent.run
    conversation_history,   \* BrowserAgent.conversation_history
    max_history_size,       \* Config.max_history_size (an integer, or None)
    model_state,            \* ModelState: is_thinking, is_first_turn, continue_automatically
    user_input,             \* run's local user_input
    message_content,        \* run's local message_content
    messages_for_call,      \* the list handed to chat.invoke on the last call
    response,               \* the model reply being processed
    command,                \* result of CommandParser.parse for the reply
    page_state,             \* PageState captured in _process_model_response
    page,                   \* the live page of the browser collaborator
    browser_log,            \* calls made on the browser collaborator, in order
    turn,                   \* what happened in the current turn (observation only)
                            \* response, command, page_state and turn are per-turn:
                            \* they are reset when a loop iteration starts
    turns,                  \* number of loop iterations started
    ocr,                    \* what the OCR engine gave for the screenshot
    object_boxes,           \* what the detector gave for the screenshot
    merge_out,              \* outcome of OmniParser.process_image
    geometry,               \* one call of is_box_inside or calculate_iou: arguments, result
    mapper,                 \* one call of find_element_coordinates: arguments, result
    browser_manager         \* BrowserManager: page, context, playwright, and the
                            \* calls cleanup made on them

vars == <<pc, conversation_history, max_history_size, model_state, user_input,
          message_content, messages_for_call, response, command, page_state,
          page, browser_log, turn, turns, ocr, object_boxes, merge_out,
          geometry, mapper, browser_manager>>

\* the variables of the perception pipeline; the session loop and the parser
\* leave them alone
perception == <<ocr, object_boxes, merge_out>>

\* detect_text has not run, process_image has not run
NoOcr == [raises |-> FALSE, items |-> << >>]

NoMerge == [ok |-> TRUE, error |-> "", elements |-> << >>, box_labels |-> << >>,
            label_coords |-> << >>, content_descriptions |-> << >>]

\* the variables of the specifications that follow one function or one
\* method on its own
units == <<geometry, mapper, browser_manager>>

\* no call has been made
NoCall == [called |-> "", raised |-> ""]

\* the state of the three of them where they are not looked at
UnitsIdle ==
    /\ geometry = NoCall
    /\ mapper = NoCall
    /\ browser_manager = NoCall

(***************************************************************************)
(* Optional values: None is the empty sequence, Some(v) the singleton.     *)
(***************************************************************************)
None == << >>

Some(v) == <<v>>

Last(s) == s[Len(s)]

RECURSIVE Flatten(_)
Flatten(ss) == IF ss = << >> THEN << >> ELSE Head(ss) \o Flatten(Tail(ss))

IsPrefix(s, t) == Len(s) <= Len(t) /\ SubSeq(t, 1, Len(s)) = s

(***************************************************************************)
(* Pieces of a reply.                                                      *)
(***************************************************************************)
\* k: kind; a: the double-quoted attribute; id: the id attribute; enter: the
\* enter attribute ("absent" when not written); cut: for a fragment left by
\* the extractor, the tag it was cut from
Piece(k, a, id, enter) == [k |-> k, a |-> a, id |-> id, enter |-> enter, cut |-> ""]

Prose == Piece("prose", << >>, "", "absent")

Junk == Piece("junk", << >>, "", "absent")

BackTag == Piece("back", << >>, "", "absent")

ScrollDownTag == Piece("scroll_down", << >>, "", "absent")

ScrollUpTag == Piece("scroll_up", << >>, "", "absent")

NextTag == Piece("next", << >>, "", "absent")

ClickTag(id) == Piece("click", << >>, id, "absent")

TypeTag(text, id, enter) == Piece("type", text, id, enter)

NavigateTag(url) == Piece("navigate", url, "", "absent")

ThinkingTag(message) == Piece("thinking", message, "", "absent")

MemorizeTag(text) == Piece("memorize", text, "", "absent")

DoneTag(result) == Piece("done", result, "", "absent")

\* The tags that carry a double-quoted attribute matched by ([^"]*).
QuotedKinds == {"type", "navigate", "thinking", "memorize", "done"}

ActionKinds == {"back", "click", "scroll_down", "scroll_up", "type", "navigate"}

HasGt(a) == \E i \in DOMAIN a : a[i] = ">"

FirstGt(a) == CHOOSE i \in DOMAIN a : a[i] = ">" /\ \A j \in 1..(i-1) : a[j] # ">"

(***************************************************************************)
(* COMMAND_EXTRACTOR = <[^>]+> with findall: every maximal "<...>" up to   *)
(* the first ">".  Prose yields nothing.  A tag whose quoted value holds a *)
(* ">" is cut at that character: what is extracted is the fragment         *)
(* <tag attr="...> , which matches none of PATTERNS, and the rest of the   *)
(* tag holds no "<" and is skipped.                                        *)
(***************************************************************************)
Fragment(p) ==
    [k |-> "junk", a |-> SubSeq(p.a, 1, FirstGt(p.a)), id |-> "", enter |-> "absent",
     cut |-> p.k]

ExtractPiece(p) ==
    IF p.k = "prose" THEN << >>
    ELSE IF p.k \in QuotedKinds /\ HasGt(p.a) THEN <<Fragment(p)>>
    ELSE <<p>>

COMMAND_EXTRACTOR_findall(reply) ==
    Flatten([i \in DOMAIN reply |-> ExtractPiece(reply[i])])

\* pattern.sub("", command_str).strip(): the matches of one pattern removed
Without(kind, s) == SelectSeq(s, LAMBDA p : p.k # kind)

\* pattern.finditer(command_str): the matches of one pattern, in order
Matches(kind, s) == SelectSeq(s, LAMBDA p : p.k = kind)

(***************************************************************************)
(* Command (dataclass) and the two ValueError outcomes of parse.           *)
(***************************************************************************)
Command(type, element_id, text, message, url, enter, has_next, memories, result) ==
    [ok |-> TRUE, error |-> "", offending |-> << >>,
     type |-> type, element_id |-> element_id, text |-> text, message |-> message,
     url |-> url, enter |-> enter, has_next |-> has_next, memories |-> memories,
     result |-> result]

ParseError(error, offending) ==
    [ok |-> FALSE, error |-> error, offending |-> offending,
     type |-> "", element_id |-> None, text |-> None, message |-> None,
     url |-> None, enter |-> FALSE, has_next |-> FALSE, memories |-> << >>,
     result |-> None]

NoCommand == Command("", None, None, None, None, FALSE, FALSE, << >>, None)

\* Python truthiness of an Optional[str]: None and "" are falsy
Truthy(opt) == opt # None /\ opt[1] # << >>

\* the action branch of the loop over PATTERNS: pattern.match anchors at the
\* start of command_str only, so the first remaining substring decides
ActionCommand(p, thinking_message, has_next, memories) ==
    CASE p.k = "type" ->
            Command("type", Some(p.id), Some(p.a), thinking_message, None,
                    p.enter = "true", has_next, memories, None)
      [] p.k = "click" ->
            Command("click", Some(p.id), None, thinking_message, None,
                    FALSE, has_next, memories, None)
      [] p.k = "navigate" ->
            Command("navigate", None, None, thinking_message, Some(p.a),
                    FALSE, has_next, memories, None)
      [] OTHER ->
            Command(p.k, None, None, thinking_message, None,
                    FALSE, has_next, memories, None)

DoneCommand(done_match, thinking_message, memories) ==
    Command("done", None, None, thinking_message, None, FALSE, FALSE, memories,
            Some(done_match.a))

parse(reply) ==
    LET matches == COMMAND_EXTRACTOR_findall(reply)
        has_next == Matches("next", matches) # << >>
        s1 == Without("next", matches)
        thinking_matches == Matches("thinking", s1)
        thinking_message == IF thinking_matches # << >>
                            THEN Some(Last(thinking_matches).a) ELSE None
        memorize_matches == Matches("memorize", s1)
        memories == [i \in DOMAIN memorize_matches |-> memorize_matches[i].a]
        s2 == Without("memorize", s1)
        done_matches == Matches("done", s2)
        s3 == Without("thinking", s2)
    IN  IF matches = << >> THEN ParseError("NoCommandFound", << >>)
        ELSE IF done_matches # << >>
             THEN DoneCommand(Head(done_matches), thinking_message, memories)
        ELSE IF s3 = << >> /\ Truthy(thinking_message)
             THEN Command("thinking", None, None, thinking_message, None, FALSE,
                          has_next, memories, None)
        ELSE IF s3 # << >> /\ Head(s3).k \in ActionKinds
             THEN ActionCommand(Head(s3), thinking_message, has_next, memories)
        ELSE ParseError("InvalidCommandFormat", s3)

(***************************************************************************)
(* Bounds of the session model.                                            *)
(***************************************************************************)
\* loop iterations of run that the model follows
MaxTurns == 2

\* largest configured max_history_size the model tries
MaxHistorySize == 1

\* the live page is one of the pages 0..MaxPage; the perception pipeline
\* finds p elements on page p
MaxPage == 1

Pages == 0..MaxPage

UserInputs == {"q", "Q", "go", ""}

\* str.lower on the inputs of UserInputs
Lower(s) == IF s = "Q" THEN "q" ELSE s

Val == <<"a">>

\* what a reply is built around: one tag of every kind, prose only, and an
\* unrecognised bracketed substring only
Primaries ==
    { <<ThinkingTag(Val)>>, <<BackTag>>, <<ClickTag("0")>>, <<ScrollDownTag>>,
      <<ScrollUpTag>>, <<TypeTag(Val, "0", "true")>>, <<NavigateTag(Val)>>,
      <<DoneTag(Val)>>, <<Prose>>, <<Junk>> }

\* the replies the model collaborator may give: a primary alone, or a
\* thinking, click or done tag with a memorize tag before it and a next tag
\* after it
Replies ==
    Primaries \cup { <<MemorizeTag(Val)>> \o r \o <<NextTag>> :
                       r \in { <<ThinkingTag(Val)>>, <<ClickTag("0")>>, <<DoneTag(Val)>> } }

(***************************************************************************)
(* Messages.  A content part is a text or an image_url entry; a context    *)
(* text is named by the template it was formatted from.                    *)
(***************************************************************************)
Part(type, text) == [type |-> type, text |-> text]

ProbePart == Part("text", "<next />")

TruncationPart == Part("text", "<truncated />")

HumanMessage(content) == [role |-> "human", content |-> content]

AIMessage(content) == [role |-> "ai", content |-> content]

truncation_message == HumanMessage(<<TruncationPart>>)

(***************************************************************************)
(* _get_llm_response: the list handed to the model.                        *)
(***************************************************************************)
\* Python's s[start:] for a list s and an integer start
SliceFrom(s, start) ==
    LET n == Len(s)
        lo == IF start < 0 THEN (IF n + start < 0 THEN 0 ELSE n + start)
              ELSE (IF start > n THEN n ELSE start)
    IN  SubSeq(s, lo + 1, n)

\* conversation_history[-max_history_size:]
LastMessages(history, n) == SliceFrom(history, 0 - n)

MessagesForCall(history, max_size) ==
    IF max_size # None /\ Len(history) > max_size[1]
    THEN <<history[1], truncation_message>> \o LastMessages(history, max_size[1])
    ELSE history

(***************************************************************************)
(* _create_context: str.format raises KeyError when the template names a   *)
(* placeholder that is not among the keyword arguments.                    *)
(***************************************************************************)
FormatArguments ==
    {"additional_context", "history", "current_url", "scroll_y", "scroll_height",
     "viewport_height", "can_scroll_down", "can_go_back", "can_go_forward"}

Placeholders(template) ==
    IF template = "PROMPT_TEMPLATE"
    THEN {"additional_context", "current_url", "scroll_y", "scroll_height",
          "viewport_height", "can_scroll_down", "can_go_back", "can_go_forward",
          "history"}
    ELSE {"memory", "additional_context", "current_url", "scroll_y", "scroll_height",
          "viewport_height", "can_scroll_down", "can_go_back", "can_go_forward",
          "history"}

TemplateFor(is_first_turn) ==
    IF is_first_turn THEN "PROMPT_TEMPLATE" ELSE "CONVERSATION_TEMPLATE"

FormatRaises(template) == ~(Placeholders(template) \subseteq FormatArguments)

\* content built by _build_message_content on the fresh-context branch
FreshContent(template, input) ==
    <<Part("text", template), Part("image_url", "encoded_image")>>
    \o (IF input # "" THEN <<Part("text", input)>> ELSE << >>)

\* mutant: the probe is sent when the previous turn asked to continue
SendsProbe_OnContinue(ms) == ms.continue_automatically

\* line 64: the branch of _build_message_content
SendsProbe(ms) == ms.is_thinking

\* mutant: the human is asked unless the previous turn was a thinking turn
ShouldPrompt_UnlessThinking(ms) == ~ms.is_thinking

\* line 177: whether run asks the human
ShouldPrompt(ms) == ~ms.continue_automatically

(***************************************************************************)
(* PageState, as far as dispatch reads it.                                 *)
(***************************************************************************)
Digits == <<"0", "1", "2", "3", "4", "5", "6", "7", "8", "9">>

\* parser.py: label_coords = {str(i): ... for i in range(N)}
LabelKeys(n) == { Digits[i + 1] : i \in 0..(n - 1) }

PageState(p, can_scroll_down) ==
    [captured |-> TRUE, page |-> p, label_coordinates |-> LabelKeys(p),
     can_scroll_down |-> can_scroll_down]

NoPageState ==
    [captured |-> FALSE, page |-> 0, label_coordinates |-> {}, can_scroll_down |-> FALSE]

ModelState(is_thinking, is_first_turn, continue_automatically) ==
    [is_thinking |-> is_thinking, is_first_turn |-> is_first_turn,
     continue_automatically |-> continue_automatically]

NewTurn ==
    [prompted |-> FALSE, parsed |-> "no", dispatched |-> "", raised |-> "",
     dispatch_error |-> "", branch |-> "", sent_page |-> None]

(***************************************************************************)
(* _execute_browser_command and the BrowserInteraction methods it calls.   *)
(***************************************************************************)
\* find_element_coordinates: the two ValueErrors, raised before any pointer
\* or keyboard call
MapperError(cmd, ps, viewport_ok) ==
    IF cmd.type \notin {"click", "type"} THEN ""
    ELSE IF cmd.element_id[1] \notin ps.label_coordinates THEN "ElementNotFound"
    ELSE IF ~viewport_ok THEN "ViewportUnavailable"
    ELSE ""

\* the collaborator calls of one directive, in order, when none raises
Plan(cmd, ps) ==
    CASE cmd.type = "back" -> <<"go_back", "wait_for_load">>
      [] cmd.type = "click" -> <<"mouse.click", "wait_for_load">>
      [] cmd.type = "scroll_down" ->
            IF ps.can_scroll_down THEN <<"press PageDown", "wait_for_load">> ELSE << >>
      [] cmd.type = "scroll_up" -> <<"press PageUp", "wait_for_load">>
      [] cmd.type = "type" ->
            <<"mouse.click", "wait_for_timeout", "keyboard.type">>
            \o (IF cmd.enter THEN <<"press Enter">> ELSE << >>)
            \o <<"wait_for_load">>
      [] cmd.type = "navigate" -> <<"goto", "wait_for_load_state">>
      [] OTHER -> << >>

\* the match statement: the kinds that have a case of their own
HasCase(type) == type \in ActionKinds

\* the error raised inside the try block, "" when none; n is the number of
\* collaborator calls that return before one raises
DispatchError(cmd, ps, viewport_ok, n) ==
    IF ~HasCase(cmd.type) THEN "UnknownCommandType"
    ELSE IF MapperError(cmd, ps, viewport_ok) # "" THEN MapperError(cmd, ps, viewport_ok)
    ELSE IF n < Len(Plan(cmd, ps)) THEN "CollaboratorError"
    ELSE ""

\* mutant: the pointer is clicked before the coordinates are looked up
DispatchCalls_ClickFirst(cmd, ps, viewport_ok, n) ==
    IF ~HasCase(cmd.type) THEN << >>
    ELSE IF MapperError(cmd, ps, viewport_ok) # "" THEN <<"mouse.click">>
    ELSE SubSeq(Plan(cmd, ps), 1, n)

DispatchCalls(cmd, ps, viewport_ok, n) ==
    IF ~HasCase(cmd.type) \/ MapperError(cmd, ps, viewport_ok) # "" THEN << >>
    ELSE SubSeq(Plan(cmd, ps), 1, n)

\* mutant: the except branch returns has_next as well
ExecuteResult_KeepsNext(cmd, err) == cmd.has_next

\* lines 143-146: the value _execute_browser_command returns for an action
ExecuteResult(cmd, err) == IF err = "" THEN cmd.has_next ELSE FALSE

(***************************************************************************)
(* The session: BrowserAgent.run.                                          *)
(***************************************************************************)
Init ==
    /\ pc = "setup"
    /\ conversation_history = << >>
    /\ max_history_size \in {None} \cup { Some(n) : n \in 0..MaxHistorySize }
    /\ model_state = ModelState(FALSE, TRUE, FALSE)
    /\ user_input = ""
    /\ message_content = << >>
    /\ messages_for_call = << >>
    /\ response = << >>
    /\ command = NoCommand
    /\ page_state = NoPageState
    /\ page \in Pages
    /\ browser_log = << >>
    /\ turn = NewTurn
    /\ turns = 0
    /\ ocr = NoOcr
    /\ object_boxes = << >>
    /\ merge_out = NoMerge
    /\ UnitsIdle

\* mutant: the exception is handled inside the loop and only ends the turn
Propagate_InsideLoop(t, what) ==
    /\ pc' = "loop"
    /\ turn' = [t EXCEPT !.raised = what]

\* an exception that leaves the while loop: run logs it and goes to finally
Propagate(t, what) ==
    /\ pc' = "cleanup"
    /\ turn' = [t EXCEPT !.raised = what]

\* run, lines 165-173
Setup ==
    /\ pc = "setup"
    /\ \/ /\ pc' = "loop"
          /\ UNCHANGED turn
       \/ Propagate(turn, "setup")
    /\ UNCHANGED <<conversation_history, max_history_size, model_state, user_input,
                   message_content, messages_for_call, response, command,
                   page_state, page, browser_log, turns>>
    /\ UNCHANGED perception
    /\ UNCHANGED units

\* run, lines 176-180, when the human is asked
Prompt ==
    /\ pc = "loop"
    /\ turns < MaxTurns
    /\ ShouldPrompt(model_state)
    /\ \E input \in UserInputs :
          /\ user_input' = input
          /\ pc' = IF Lower(input) = "q" THEN "cleanup" ELSE "build"
    /\ turn' = [NewTurn EXCEPT !.prompted = TRUE]
    /\ turns' = turns + 1
    /\ response' = << >>
    /\ command' = NoCommand
    /\ page_state' = NoPageState
    /\ UNCHANGED <<conversation_history, max_history_size, model_state,
                   message_content, messages_for_call, page, browser_log>>
    /\ UNCHANGED perception
    /\ UNCHANGED units

\* run, lines 176-177, when the human is not asked
NoPrompt ==
    /\ pc = "loop"
    /\ turns < MaxTurns
    /\ ~ShouldPrompt(model_state)
    /\ user_input' = ""
    /\ pc' = "build"
    /\ turn' = NewTurn
    /\ turns' = turns + 1
    /\ response' = << >>
    /\ command' = NoCommand
    /\ page_state' = NoPageState
    /\ UNCHANGED <<conversation_history, max_history_size, model_state,
                   message_content, messages_for_call, page, browser_log>>
    /\ UNCHANGED perception
    /\ UNCHANGED units

\* _build_message_content with capture_state and _create_context
BuildMessageContent ==
    /\ pc = "build"
    /\ IF SendsProbe(model_state)
       THEN /\ message_content' = <<ProbePart>>
            /\ pc' = "call"
            /\ turn' = [turn EXCEPT !.branch = "probe"]
       ELSE \/ /\ Propagate([turn EXCEPT !.branch = "fresh"], "capture")
               /\ UNCHANGED message_content
            \/ LET template == TemplateFor(model_state.is_first_turn)
                   t == [turn EXCEPT !.branch = "fresh", !.sent_page = Some(page)]
               IN  IF FormatRaises(template)
                   THEN /\ Propagate(t, "KeyError")
                        /\ UNCHANGED message_content
                   ELSE /\ message_content' = FreshContent(template, user_input)
                        /\ pc' = "call"
                        /\ turn' = t
    /\ UNCHANGED <<conversation_history, max_history_size, model_state, user_input,
                   messages_for_call, response, command, page_state, page,
                   browser_log, turns>>
    /\ UNCHANGED perception
    /\ UNCHANGED units

\* mutant: the truncated view is stored back as the history
HistoryAfterReply_StoresView(history, content, reply) ==
    Append(MessagesForCall(Append(history, HumanMessage(content)), max_history_size),
           AIMessage(reply))

\* lines 96 and 110: what the call leaves in conversation_history when the
\* model returns reply
HistoryAfterReply(history, content, reply) ==
    Append(Append(history, HumanMessage(content)), AIMessage(reply))

\* _get_llm_response
GetLLMResponse ==
    /\ pc = "call"
    /\ messages_for_call' =
          MessagesForCall(Append(conversation_history, HumanMessage(message_content)),
                          max_history_size)
    /\ \/ \E reply \in Replies :
             /\ conversation_history' =
                   HistoryAfterReply(conversation_history, message_content, reply)
             /\ response' = reply
             /\ pc' = "process"
             /\ UNCHANGED turn
       \/ /\ conversation_history' =
                Append(conversation_history, HumanMessage(message_content))
          /\ Propagate(turn, "model")
          /\ UNCHANGED response
    /\ UNCHANGED <<max_history_size, model_state, user_input, message_content,
                   command, page_state, page, browser_log, turns>>
    /\ UNCHANGED perception
    /\ UNCHANGED units

\* mutant: the handler asks for autonomous continuation
EndAsParseFailure_Continues ==
    /\ model_state' = ModelState(TRUE, FALSE, TRUE)
    /\ pc' = "loop"

\* line 162 and lines 185-186: the turn ends as a parse failure
EndAsParseFailure ==
    /\ model_state' = ModelState(TRUE, FALSE, FALSE)
    /\ pc' = "loop"

\* _process_model_response up to the call of _execute_browser_command
ProcessModelResponse ==
    /\ pc = "process"
    /\ LET cmd == parse(response)
       IN  /\ command' = cmd
           /\ IF ~cmd.ok
              THEN /\ EndAsParseFailure
                   /\ turn' = [turn EXCEPT !.parsed = "failed"]
                   /\ UNCHANGED page_state
              ELSE IF cmd.type = "thinking"
              THEN /\ page_state' = NoPageState
                   /\ pc' = "dispatch"
                   /\ turn' = [turn EXCEPT !.parsed = "ok"]
                   /\ UNCHANGED model_state
              ELSE \/ \E can_scroll_down \in BOOLEAN :
                         /\ page_state' = PageState(page, can_scroll_down)
                         /\ pc' = "dispatch"
                         /\ turn' = [turn EXCEPT !.parsed = "ok"]
                         /\ UNCHANGED model_state
                   \/ /\ EndAsParseFailure
                      /\ turn' = [turn EXCEPT !.parsed = "ok",
                                              !.raised = "capture ValueError"]
                      /\ UNCHANGED page_state
                   \/ /\ Propagate([turn EXCEPT !.parsed = "ok"], "capture")
                      /\ UNCHANGED <<page_state, model_state>>
    /\ UNCHANGED <<conversation_history, max_history_size, user_input,
                   message_content, messages_for_call, response, page, browser_log,
                   turns>>
    /\ UNCHANGED perception
    /\ UNCHANGED units

\* _execute_browser_command, then lines 157-158 and 185-186
ExecuteBrowserCommand ==
    /\ pc = "dispatch"
    /\ IF command.type = "thinking"
       THEN /\ model_state' = ModelState(TRUE, FALSE, command.has_next)
            /\ turn' = [turn EXCEPT !.dispatched = "thinking"]
            /\ UNCHANGED browser_log
       ELSE \E viewport_ok \in BOOLEAN, n \in 0..Len(Plan(command, page_state)) :
               LET err == DispatchError(command, page_state, viewport_ok, n)
               IN  /\ model_state' = ModelState(FALSE, FALSE, ExecuteResult(command, err))
                   /\ browser_log' =
                         browser_log \o DispatchCalls(command, page_state, viewport_ok, n)
                   /\ turn' = [turn EXCEPT !.dispatched = command.type,
                                           !.dispatch_error = err]
    /\ pc' = "loop"
    /\ UNCHANGED <<conversation_history, max_history_size, user_input,
                   message_content, messages_for_call, response, command,
                   page_state, page, turns>>
    /\ UNCHANGED perception
    /\ UNCHANGED units

\* the finally block of run
Cleanup ==
    /\ pc = "cleanup"
    /\ pc' = "exited"
    /\ UNCHANGED <<conversation_history, max_history_size, model_state, user_input,
                   message_content, messages_for_call, response, command,
                   page_state, page, browser_log, turn, turns>>
    /\ UNCHANGED perception
    /\ UNCHANGED units

\* the browser collaborator: the live page changes (a load finishes, a script
\* runs, an action takes effect)
PageChanges ==
    /\ pc \in {"loop", "build", "call", "process", "dispatch"}
    /\ \E p \in Pages \ {page} : page' = p
    /\ UNCHANGED <<pc, conversation_history, max_history_size, model_state,
                   user_input, message_content, messages_for_call, response,
                   command, page_state, browser_log, turn, turns>>
    /\ UNCHANGED perception
    /\ UNCHANGED units

Next ==
    \/ Setup
    \/ Prompt
    \/ NoPrompt
    \/ BuildMessageContent
    \/ GetLLMResponse
    \/ ProcessModelResponse
    \/ ExecuteBrowserCommand
    \/ Cleanup
    \/ PageChanges

Spec == Init /\ [][Next]_vars

(***************************************************************************)
(* Properties of the session loop.                                         *)
(***************************************************************************)
\* the positions of a turn between the loop head and the end of the turn;
\* model_state still holds what the previous turn left
InTurn == pc \in {"build", "call", "process", "dispatch"}

\* C1: in every turn the human is prompted if and only if the previous turn
\* did not set continue_automatically; the first turn always prompts; a turn
\* that follows continue_automatically = true is at the model call without
\* the human having been prompted.
C1_PromptIffNotContinue ==
    /\ InTurn => (turn.prompted <=> ~model_state.continue_automatically)
    /\ (InTurn /\ turns = 1) => turn.prompted
    /\ (pc = "call" /\ model_state.continue_automatically) => ~turn.prompted

C1_Witness ==
    /\ pc = "call"
    /\ model_state.continue_automatically
    /\ ~turn.prompted
    /\ turns = 2

\* C2 as stated: whenever the previous turn set continue_automatically, the
\* turn builds the continuation probe and not a fresh context message.
C2_ProbeWheneverContinue ==
    (pc # "loop" /\ turn.branch # "" /\ model_state.continue_automatically)
        => turn.branch = "probe"

\* C2 amended: a turn builds the continuation probe exactly when the previous
\* turn left is_thinking = true (a THINKING directive, or the parse-failure
\* handler), whatever continue_automatically is; after an action or DONE
\* directive with a next tag the turn takes the fresh-context branch.
C2_ProbeIffThinking ==
    /\ (pc # "loop" /\ turn.branch # "")
          => (turn.branch = "probe" <=> model_state.is_thinking)
    /\ pc = "call" => (message_content = <<ProbePart>> <=> model_state.is_thinking)

C2_Witness ==
    /\ turn.branch = "fresh"
    /\ model_state.continue_automatically
    /\ ~model_state.is_thinking
    /\ turns = 2

\* C3: when parsing the reply fails, no browser action is dispatched and no
\* page is captured, the loop is not left, continue_automatically is false,
\* and the next step of the loop prompts the human.
C3_ParseFailureFallsBack ==
    [][ /\ (pc = "process" /\ pc' # pc /\ ~parse(response).ok)
            => /\ pc' = "loop"
               /\ ~model_state'.continue_automatically
               /\ browser_log' = browser_log
               /\ turn'.dispatched = ""
        /\ (pc = "loop" /\ turn.parsed = "failed" /\ pc' # pc)
            => turn'.prompted ]_vars

C3_Witness ==
    /\ turn.prompted
    /\ turns = 2
    /\ pc = "build"
    /\ Len(conversation_history) = 2
    /\ ~parse(conversation_history[2].content).ok

\* C4: an error raised while a parsed action directive is dispatched is
\* caught in _execute_browser_command: the turn ends with
\* continue_automatically = false even when the reply carried a next tag,
\* the loop is not left, and the next step of the loop prompts the human.
C4_DispatchErrorStopsContinuation ==
    [][ /\ (pc = "dispatch" /\ pc' # pc /\ turn'.dispatch_error # "")
            => /\ pc' = "loop"
               /\ ~model_state'.continue_automatically
        /\ (pc = "loop" /\ turn.dispatch_error # "" /\ pc' # pc)
            => turn'.prompted ]_vars

C4_Witness ==
    /\ pc = "loop"
    /\ turn.dispatch_error = "CollaboratorError"
    /\ command.has_next
    /\ ~model_state.continue_automatically
    /\ turns < MaxTurns

\* the history the last model call was made with: the stored history without
\* the reply that the call appended
HistoryAtCall == SubSeq(conversation_history, 1, Len(conversation_history) - 1)

\* C5 as stated: for a configured maximum N >= 0 and the stored history of
\* length L at the call, the view is [first, marker, last N records], of
\* length N + 2, when L > N, and the stored history itself when L <= N.
C5_ViewAsClaimed ==
    (pc = "process" /\ max_history_size # None) =>
        LET H == HistoryAtCall
            N == max_history_size[1]
            L == Len(H)
        IN  IF L > N
            THEN /\ messages_for_call =
                        <<H[1], truncation_message>> \o SubSeq(H, L - N + 1, L)
                 /\ Len(messages_for_call) = N + 2
            ELSE messages_for_call = H

\* C6: the stored history only grows by appending: each step leaves the
\* earlier history a prefix of the later one, computing the truncated view
\* does not change it, and a model call that returns appends exactly the
\* outgoing message followed by the reply.
C6_HistoryAppendOnly ==
    [][ /\ IsPrefix(conversation_history, conversation_history')
        /\ (pc = "call" /\ pc' = "process")
            => conversation_history' =
                  conversation_history
                  \o <<HumanMessage(message_content), AIMessage(response')>> ]_vars

C6_Witness ==
    /\ pc = "process"
    /\ Len(conversation_history) = 4
    /\ messages_for_call # HistoryAtCall
    /\ Len(messages_for_call) = 3

\* C7 as stated: when the model call or a page capture raises, only the turn
\* is aborted and the loop is not left.
C7_RaiseAbortsTurnOnly ==
    turn.raised \in {"model", "capture", "capture ValueError"}
        => pc \notin {"cleanup", "exited"}

\* C7 amended: when the model call raises, or a page capture raises while the
\* outgoing message is built or after the reply was parsed, the exception
\* leaves the loop: run goes to cleanup and the human is not prompted again;
\* only a ValueError raised by the capture after parsing is handled like a
\* parse failure, the loop going on with continue_automatically = false.
C7_RaiseLeavesLoop ==
    [][ /\ (turn.raised = "" /\ turn'.raised \in {"model", "capture"})
            => pc' = "cleanup"
        /\ pc \in {"cleanup", "exited"}
            => (pc' \in {"cleanup", "exited"} /\ turn' = turn /\ turns' = turns)
        /\ (turn.raised = "" /\ turn'.raised = "capture ValueError")
            => (pc' = "loop" /\ ~model_state'.continue_automatically) ]_vars

C7_Witness ==
    /\ pc = "exited"
    /\ turn.raised = "model"
    /\ turns = 1
    /\ Len(conversation_history) = 1

\* the memorize texts of the replies stored so far, in order
RECURSIVE MemoriesOf(_)
MemoriesOf(history) ==
    IF history = << >> THEN << >>
    ELSE (IF Head(history).role = "ai" THEN parse(Head(history).content).memories
          ELSE << >>) \o MemoriesOf(Tail(history))

\* C8 as stated: the memorize entries of earlier turns are stored, and a
\* later turn that builds a fresh context (CONVERSATION_TEMPLATE) gets its
\* message built with a memory section filled from them.
C8_MemorySectionListsMemories ==
    ( /\ pc # "loop"
      /\ turn.branch = "fresh"
      /\ ~model_state.is_first_turn
      /\ turn.raised # "capture"
      /\ MemoriesOf(conversation_history) # << >> )
        => (turn.raised = "" /\ "memory" \in FormatArguments)

\* C9 as stated: every directive kind the parser returns has a dispatch
\* effect of its own and none reaches the unknown-kind error; a DONE
\* directive ends its turn without an error being raised.
C9_EveryKindHasCase ==
    turn.dispatched # "" => turn.dispatch_error # "UnknownCommandType"

(***************************************************************************)
(* The parser on its own: a reply is put together piece by piece and       *)
(* handed to CommandParser.parse.                                          *)
(***************************************************************************)
\* longest reply, in pieces
MaxReplyLen == 3

Gt == <<"a", ">">>

AttrValues == { << >>, <<"a">>, <<"b">>, Gt }

ParsePieces ==
    {Prose, Junk, BackTag, ScrollDownTag, ScrollUpTag, NextTag,
     ClickTag("1"), ClickTag("01"),
     TypeTag(<<"a">>, "1", "absent"), TypeTag(<<"a">>, "1", "true"),
     TypeTag(<<"b">>, "01", "false"),
     NavigateTag(<<"a">>), NavigateTag(Gt)}
    \cup { ThinkingTag(v) : v \in AttrValues }
    \cup { MemorizeTag(v) : v \in AttrValues \ {<< >>} }
    \cup { DoneTag(v) : v \in AttrValues }

ParseInit ==
    /\ pc = "reply"
    /\ conversation_history = << >>
    /\ max_history_size = None
    /\ model_state = ModelState(FALSE, TRUE, FALSE)
    /\ user_input = ""
    /\ message_content = << >>
    /\ messages_for_call = << >>
    /\ response = << >>
    /\ command = NoCommand
    /\ page_state = NoPageState
    /\ page = 0
    /\ browser_log = << >>
    /\ turn = NewTurn
    /\ turns = 0
    /\ ocr = NoOcr
    /\ object_boxes = << >>
    /\ merge_out = NoMerge
    /\ UnitsIdle

\* the model collaborator writes one more piece of its reply
AppendPiece ==
    /\ pc = "reply"
    /\ Len(response) < MaxReplyLen
    /\ \E p \in ParsePieces : response' = Append(response, p)
    /\ UNCHANGED <<pc, conversation_history, max_history_size, model_state,
                   user_input, message_content, messages_for_call, command,
                   page_state, page, browser_log, turn, turns>>
    /\ UNCHANGED perception
    /\ UNCHANGED units

\* CommandParser.parse(response)
Parse ==
    /\ pc = "reply"
    /\ command' = parse(response)
    /\ pc' = "parsed"
    /\ UNCHANGED <<conversation_history, max_history_size, model_state, user_input,
                   message_content, messages_for_call, response, page_state, page,
                   browser_log, turn, turns>>
    /\ UNCHANGED perception
    /\ UNCHANGED units

ParseNext == AppendPiece \/ Parse

ParseSpec == ParseInit /\ [][ParseNext]_vars

(***************************************************************************)
(* Properties of the parser.                                               *)
(***************************************************************************)
\* the attribute values of the well-formed tags of one kind, as written
Written(kind, reply) ==
    LET ms == Matches(kind, reply) IN [i \in DOMAIN ms |-> ms[i].a]

\* C10 as stated: a reply that contains a well-formed done tag parses to a
\* DONE directive with that tag's result, the last thinking message and all
\* memorize texts, has_next false, whatever else the reply holds.
C10_DonePreempts ==
    (pc = "parsed" /\ Written("done", response) # << >>)
        => command =
              DoneCommand(Head(Matches("done", response)),
                          IF Written("thinking", response) # << >>
                          THEN Some(Last(Written("thinking", response))) ELSE None,
                          Written("memorize", response))

\* the bracketed substrings of a reply, as written, that are none of the
\* next, memorize and thinking tags
Remaining(reply) ==
    SelectSeq(reply, LAMBDA p : p.k \notin {"prose", "next", "memorize", "thinking"})

\* C11 as stated: an action directive is returned only if the text left after
\* the next, memorize and thinking tags are removed is exactly one action
\* tag; when that text is an action tag followed by another action tag or by
\* other bracketed text (no done tag), parse fails with InvalidCommandFormat.
C11_ActionOnlyIfSingleTag ==
    pc = "parsed" =>
        LET rest == Remaining(response)
        IN  /\ (command.ok /\ command.type \in ActionKinds)
                 => (Len(rest) = 1 /\ rest[1].k \in ActionKinds)
            /\ (/\ Len(rest) >= 2
                /\ rest[1].k \in ActionKinds
                /\ \A i \in DOMAIN rest : rest[i].k # "done")
                 => (~command.ok /\ command.error = "InvalidCommandFormat")

RecognisedKinds == ActionKinds \cup {"thinking", "next", "memorize", "done"}

\* s with p inserted after its first i elements
InsertAt(s, i, p) == SubSeq(s, 1, i) \o <<p>> \o SubSeq(s, i + 1, Len(s))

\* the same directive with the same fields, or the same kind of failure
SameOutcome(c, d) == IF c.ok THEN c = d ELSE ~d.ok /\ c.error = d.error

\* C12 as stated: for a reply with at least one recognised tag, adding an
\* unrecognised bracketed substring before, between or after the tags leaves
\* the outcome of parse as it was.
C12_UnrecognisedIsInert ==
    (pc = "parsed" /\ \E i \in DOMAIN response : response[i].k \in RecognisedKinds)
        => \A i \in 0..Len(response) :
              SameOutcome(command, parse(InsertAt(response, i, Junk)))

\* C13 as stated: a reply made of one well-formed tag of any of the ten
\* grammars parses successfully and the result's fields reproduce the tag's
\* attributes (enter false when absent, ids as the written digit strings).
C13_SingleTagRoundTrip ==
    (pc = "parsed" /\ Len(response) = 1 /\ response[1].k \in RecognisedKinds)
        => LET p == response[1]
           IN  /\ command.ok
               /\ p.k \in ActionKinds \cup {"thinking", "done"} => command.type = p.k
               /\ p.k \in {"click", "type"} => command.element_id = Some(p.id)
               /\ p.k = "type" => (command.text = Some(p.a)
                                   /\ command.enter = (p.enter = "true"))
               /\ p.k = "navigate" => command.url = Some(p.a)
               /\ p.k = "thinking" => command.message = Some(p.a)
               /\ p.k = "done" => command.result = Some(p.a)
               /\ p.k = "memorize" => command.memories = <<p.a>>
               /\ p.k = "next" => command.has_next

\* C14 as stated: a reply whose tags are one or more thinking tags plus
\* optionally next and memorize tags parses to a THINKING directive with the
\* last thinking message (the empty string included), has_next true exactly
\* when a next tag is present, and the memorize texts as memories.
C14_ThinkingOnlyReply ==
    (/\ pc = "parsed"
     /\ Written("thinking", response) # << >>
     /\ \A i \in DOMAIN response :
           response[i].k \in {"prose", "thinking", "next", "memorize"})
        => /\ command.ok
           /\ command.type = "thinking"
           /\ command.message = Some(Last(Written("thinking", response)))
           /\ command.has_next = (Matches("next", response) # << >>)
           /\ command.memories = Written("memorize", response)

\* C15 as stated: on every successful parse the message is that of the last
\* well-formed thinking tag of the reply, null when there is none, and a
\* reply with an action tag never parses to a THINKING directive.
C15_MessageIsLastThinking ==
    (pc = "parsed" /\ command.ok)
        => /\ command.message =
                 IF Written("thinking", response) # << >>
                 THEN Some(Last(Written("thinking", response))) ELSE None
           /\ (\E i \in DOMAIN response : response[i].k \in ActionKinds)
                 => command.type # "thinking"

\* s without its i-th element
RemoveAt(s, i) == SubSeq(s, 1, i - 1) \o SubSeq(s, i + 1, Len(s))

\* equal in everything but the memories field
SameButMemories(c, d) == [c EXCEPT !.memories = << >>] = [d EXCEPT !.memories = << >>]

\* C16 as stated: the memories of a successful parse are the texts of all
\* well-formed memorize tags in order, and removing a memorize tag, or
\* inserting one anywhere, changes neither whether parse succeeds nor any
\* field of a successful result other than memories.
C16_MemoriesAreMemorizeTexts ==
    pc = "parsed" =>
        /\ command.ok => command.memories = Written("memorize", response)
        /\ \A i \in DOMAIN response :
              response[i].k = "memorize" =>
                  LET d == parse(RemoveAt(response, i))
                  IN  d.ok = command.ok /\ (d.ok => SameButMemories(command, d))
        /\ \A i \in 0..Len(response) : \A v \in AttrValues \ {<< >>} :
              LET d == parse(InsertAt(response, i, MemorizeTag(v)))
              IN  d.ok = command.ok /\ (d.ok => SameButMemories(command, d))

(***************************************************************************)
(* The perception pipeline: src/src/omniparser/utils/boxes.py and          *)
(* OmniParser.process_image (src/src/omniparser/parser.py).                *)
(*                                                                         *)
(* A box is <<x1, y1, x2, y2>> with integer pixel coordinates.  The code   *)
(* divides every box by the image size before the merge and multiplies it  *)
(* back afterwards; areas then scale by one common factor, so every        *)
(* comparison of areas and every ratio of areas is the one computed here   *)
(* on pixels (floating-point rounding is not represented).  A quotient is  *)
(* kept as numerator and denominator and compared by cross-multiplication. *)
(***************************************************************************)
Max(a, b) == IF a >= b THEN a ELSE b

Min(a, b) == IF a <= b THEN a ELSE b

calculate_box_area(box) == (box[3] - box[1]) * (box[4] - box[2])

calculate_intersection_area(box1, box2) ==
    LET x1 == Max(box1[1], box2[1])
        y1 == Max(box1[2], box2[2])
        x2 == Min(box1[3], box2[3])
        y2 == Min(box1[4], box2[4])
    IN  Max(0, x2 - x1) * Max(0, y2 - y1)

\* the value of n / d for d > 0
Ratio(n, d) == [num |-> n, den |-> d]

\* what n / d gives for d = 0
ZeroDivisionError == [num |-> 0, den |-> 0]

Divide(n, d) == IF d = 0 THEN ZeroDivisionError ELSE Ratio(n, d)

\* q > t for two quotients with positive denominators
Greater(q, t) == q.num * t.den > t.num * q.den

\* max of two quotients with positive denominators
MaxRatio(q, t) == IF Greater(t, q) THEN t ELSE q

calculate_iou(box1, box2, return_max) ==
    LET intersection == calculate_intersection_area(box1, box2)
        union == calculate_box_area(box1) + calculate_box_area(box2) - intersection
        guarded == calculate_box_area(box1) > 0 /\ calculate_box_area(box2) > 0
        ratio1 == IF guarded THEN Ratio(intersection, calculate_box_area(box1))
                  ELSE Ratio(0, 1)
        ratio2 == IF guarded THEN Ratio(intersection, calculate_box_area(box2))
                  ELSE Ratio(0, 1)
    IN  IF union = 0 THEN ZeroDivisionError
        ELSE IF return_max
             THEN MaxRatio(MaxRatio(Ratio(intersection, union), ratio1), ratio2)
        ELSE Ratio(intersection, union)

\* is_box_inside's default threshold, 0.95
InsideThreshold == Ratio(95, 100)

\* BrowserAgent's screenshot analysis calls process_image with
\* iou_threshold = 0.3
IouThreshold == Ratio(3, 10)

\* q >= t for two quotients with positive denominators
AtLeast(q, t) == q.num * t.den >= t.num * q.den

\* is_box_inside with >= in the place of >
is_box_inside_AtLeast(box1, box2, threshold) ==
    LET quotient == Divide(calculate_intersection_area(box1, box2),
                           calculate_box_area(box1))
    IN  IF quotient = ZeroDivisionError THEN FALSE ELSE AtLeast(quotient, threshold)

\* box1 is inside box2: intersection / area(box1) > threshold.  For a box1 of
\* area 0 the division raises; the callers of this operator ask
\* ZeroDivisionError first (IsBoxInside) or pass boxes of positive area.
is_box_inside(box1, box2, threshold) ==
    LET quotient == Divide(calculate_intersection_area(box1, box2),
                           calculate_box_area(box1))
    IN  IF quotient = ZeroDivisionError THEN FALSE ELSE Greater(quotient, threshold)

(***************************************************************************)
(* Elements.  An element is a dict with type, bbox, interactivity and      *)
(* content; remove_overlapping_boxes called without OCR boxes appends the  *)
(* bare bbox list of a survivor instead of a dict.                         *)
(***************************************************************************)
Element(type, bbox, interactivity, content) ==
    [is_dict |-> TRUE, type |-> type, bbox |-> bbox,
     interactivity |-> interactivity, content |-> content]

BareBox(bbox) ==
    [is_dict |-> FALSE, type |-> "", bbox |-> bbox,
     interactivity |-> FALSE, content |-> None]

IconElement(bbox) == Element("icon", bbox, TRUE, None)

process_box_with_ocr(box, ocr_boxes) ==
    LET decides(k) == \/ is_box_inside(ocr_boxes[k].bbox, box.bbox, InsideThreshold)
                      \/ is_box_inside(box.bbox, ocr_boxes[k].bbox, InsideThreshold)
        ks == { k \in DOMAIN ocr_boxes : decides(k) }
    IN  IF ks = {} THEN None
        ELSE LET k == CHOOSE k \in ks : \A l \in ks : k <= l
             IN  IF is_box_inside(ocr_boxes[k].bbox, box.bbox, InsideThreshold)
                 THEN Some(Element("text", box.bbox, TRUE, ocr_boxes[k].content))
                 ELSE Some(IconElement(box.bbox))

\* sorted(boxes, key=area, reverse=True): a stable sort, also when reversed,
\* so boxes of equal area keep the order they had
SortedByAreaDescending(boxes) ==
    LET area(k) == calculate_box_area(boxes[k].bbox)
        rank(k) == 1 + Cardinality({ j \in DOMAIN boxes :
                                       \/ area(j) > area(k)
                                       \/ (area(j) = area(k) /\ j < k) })
    IN  [p \in DOMAIN boxes |-> boxes[CHOOSE k \in DOMAIN boxes : rank(k) = p]]

\* what is appended for a box that passed the loop
Survivor(box1, ocr_boxes) ==
    IF ocr_boxes # << >>
    THEN LET processed_box == process_box_with_ocr(box1, ocr_boxes)
         IN  IF processed_box # None THEN processed_box[1] ELSE IconElement(box1.bbox)
    ELSE BareBox(box1.bbox)

\* mutant: a box is compared with the boxes before it only
Overlapping_EarlierOnly(sorted_boxes, iou_threshold, i, used_indices) ==
    { j \in DOMAIN sorted_boxes :
        /\ j < i
        /\ j \notin used_indices
        /\ Greater(calculate_iou(sorted_boxes[i].bbox, sorted_boxes[j].bbox, FALSE),
                   iou_threshold) }

\* the boxes the inner loop of remove_overlapping_boxes marks for box i
Overlapping(sorted_boxes, iou_threshold, i, used_indices) ==
    { j \in DOMAIN sorted_boxes :
        /\ i # j
        /\ j \notin used_indices
        /\ Greater(calculate_iou(sorted_boxes[i].bbox, sorted_boxes[j].bbox, FALSE),
                   iou_threshold) }

\* the outer loop of remove_overlapping_boxes from index i on: what it appends
RECURSIVE SuppressFrom(_, _, _, _, _)
SuppressFrom(sorted_boxes, iou_threshold, ocr_boxes, i, used_indices) ==
    IF i > Len(sorted_boxes) THEN << >>
    ELSE IF i \in used_indices
         THEN SuppressFrom(sorted_boxes, iou_threshold, ocr_boxes, i + 1, used_indices)
    ELSE LET marked == Overlapping(sorted_boxes, iou_threshold, i, used_indices)
         IN  IF marked # {}
             THEN SuppressFrom(sorted_boxes, iou_threshold, ocr_boxes, i + 1,
                               used_indices \cup marked)
             ELSE <<Survivor(sorted_boxes[i], ocr_boxes)>>
                  \o SuppressFrom(sorted_boxes, iou_threshold, ocr_boxes, i + 1,
                                  used_indices \cup {i})

remove_overlapping_boxes(boxes, iou_threshold, ocr_boxes) ==
    ocr_boxes \o SuppressFrom(SortedByAreaDescending(boxes), iou_threshold,
                              ocr_boxes, 1, {})

(***************************************************************************)
(* OmniParser.process_image, from the two detection results on.            *)
(***************************************************************************)
\* the except branch of the OCR call leaves texts and text_boxes empty
TextElements(ocr_result) ==
    IF ocr_result.raises THEN << >>
    ELSE [i \in DOMAIN ocr_result.items |->
            Element("text", ocr_result.items[i].bbox, FALSE,
                    Some(ocr_result.items[i].text))]

ObjectElements(boxes) == [i \in DOMAIN boxes |-> IconElement(boxes[i])]

\* mutant: the merged list is used in the order the merge left it
SortedElements_Unsorted(filtered_elements) == filtered_elements

\* sorted(filtered_elements, key=lambda x: x['content'] is None): a stable
\* sort on a boolean key, False first
SortedElements(filtered_elements) ==
    SelectSeq(filtered_elements, LAMBDA e : e.content # None)
        \o SelectSeq(filtered_elements, LAMBDA e : e.content = None)

\* box_convert(in_fmt="xyxy", out_fmt="xywh")
xywh(box) == <<box[1], box[2], box[3] - box[1], box[4] - box[2]>>

\* f"id: {i}" for i in range(len(element_boxes))
BoxLabels(sorted_elements) == [i \in DOMAIN sorted_elements |-> i - 1]

\* one line "<Text|Icon> Box ID <i>: <content or ''>" per element; for a
\* string, content or '' is the string itself
ContentDescriptions(sorted_elements) ==
    [i \in DOMAIN sorted_elements |->
        [label |-> IF sorted_elements[i].type = "text" THEN "Text" ELSE "Icon",
         id |-> i - 1,
         content |-> IF sorted_elements[i].content = None THEN ""
                     ELSE sorted_elements[i].content[1]]]

\* mutant: the keys are counted from 1
LabelCoords_FromOne(sorted_elements) ==
    [k \in { Digits[i + 1] : i \in DOMAIN sorted_elements } |->
        xywh(sorted_elements[CHOOSE i \in DOMAIN sorted_elements : Digits[i + 1] = k].bbox)]

\* {str(i): box.tolist() for i, box in enumerate(xywh)}; the agent calls
\* process_image with normalize_coordinates left False, so the entries stay
\* in pixels
LabelCoords(sorted_elements) ==
    [k \in LabelKeys(Len(sorted_elements)) |->
        xywh(sorted_elements[CHOOSE i \in DOMAIN sorted_elements : Digits[i] = k].bbox)]

MergeError(error) ==
    [ok |-> FALSE, error |-> error, elements |-> << >>, box_labels |-> << >>,
     label_coords |-> << >>, content_descriptions |-> << >>]

\* x['content'] on a bare bbox list raises TypeError in the sort key
process_image(ocr_result, boxes, iou_threshold) ==
    LET text_elements == TextElements(ocr_result)
        object_elements == ObjectElements(boxes)
        filtered_elements ==
            remove_overlapping_boxes(object_elements, iou_threshold, text_elements)
        sorted_elements == SortedElements(filtered_elements)
    IN  IF \E i \in DOMAIN filtered_elements : ~filtered_elements[i].is_dict
        THEN MergeError("TypeError")
        ELSE [ok |-> TRUE, error |-> "", elements |-> sorted_elements,
              box_labels |-> BoxLabels(sorted_elements),
              label_coords |-> LabelCoords(sorted_elements),
              content_descriptions |-> ContentDescriptions(sorted_elements)]

(***************************************************************************)
(* The perception pipeline alone: the two detectors report what they found *)
(* on a screenshot, then process_image merges it.                          *)
(***************************************************************************)
\* ICON boxes the detector may report
MaxIcons == 3

\* texts the OCR engine may report
MaxTexts == 1

\* the screenshot is a strip of height 1; boxes span Coords horizontally
Coords == 0..4

IconBoxes == { <<x1, 0, x2, 1>> : x1 \in Coords, x2 \in Coords } \cap
             { b \in Coords \X Coords \X Coords \X Coords : b[1] < b[3] }

TextBoxes == { <<0, 0, 1, 1>>, <<1, 0, 2, 1>>, <<2, 0, 4, 1>>, <<0, 0, 4, 1>> }

Texts == {"ok", ""}

MergeInit ==
    /\ pc = "screenshot"
    /\ conversation_history = << >>
    /\ max_history_size = None
    /\ model_state = ModelState(FALSE, TRUE, FALSE)
    /\ user_input = ""
    /\ message_content = << >>
    /\ messages_for_call = << >>
    /\ response = << >>
    /\ command = NoCommand
    /\ page_state = NoPageState
    /\ page = 0
    /\ browser_log = << >>
    /\ turn = NewTurn
    /\ turns = 0
    /\ ocr = NoOcr
    /\ object_boxes = << >>
    /\ merge_out = NoMerge
    /\ UnitsIdle

session == <<conversation_history, max_history_size, model_state, user_input,
             message_content, messages_for_call, response, command, page_state,
             page, browser_log, turn, turns>>

\* the OCR engine reports one more text with its box
DetectText ==
    /\ pc = "screenshot"
    /\ ~ocr.raises
    /\ Len(ocr.items) < MaxTexts
    /\ \E t \in Texts, b \in TextBoxes :
          ocr' = [ocr EXCEPT !.items = Append(@, [text |-> t, bbox |-> b])]
    /\ UNCHANGED <<pc, object_boxes, merge_out, session>>
    /\ UNCHANGED units

\* the OCR engine raises
DetectTextRaises ==
    /\ pc = "screenshot"
    /\ ocr = NoOcr
    /\ ocr' = [ocr EXCEPT !.raises = TRUE]
    /\ UNCHANGED <<pc, object_boxes, merge_out, session>>
    /\ UNCHANGED units

\* the detector reports one more ICON box
DetectObject ==
    /\ pc = "screenshot"
    /\ Len(object_boxes) < MaxIcons
    /\ \E b \in IconBoxes : object_boxes' = Append(object_boxes, b)
    /\ UNCHANGED <<pc, ocr, merge_out, session>>
    /\ UNCHANGED units

ProcessImage ==
    /\ pc = "screenshot"
    /\ merge_out' = process_image(ocr, object_boxes, IouThreshold)
    /\ pc' = "merged"
    /\ UNCHANGED <<ocr, object_boxes, session>>
    /\ UNCHANGED units

MergeNext == DetectText \/ DetectTextRaises \/ DetectObject \/ ProcessImage

MergeSpec == MergeInit /\ [][MergeNext]_vars

(***************************************************************************)
(* Properties of the perception pipeline.                                  *)
(***************************************************************************)
\* the elements of an output that come from detector boxes
FromDetector(e) == e.interactivity

\* two boxes whose standard IoU exceeds the merge threshold
Exceeds(b1, b2) ==
    LET inter == calculate_intersection_area(b1, b2)
    IN  inter * IouThreshold.den
           > IouThreshold.num * (calculate_box_area(b1) + calculate_box_area(b2) - inter)

\* C17 as stated: when the OCR engine raises or returns no text and the
\* detector returns at least one ICON box, process_image completes and
\* returns only ICON elements, interactive, without content, on detector
\* boxes, with ids 0..N-1.
C17_IconsOnlyWhenOcrEmpty ==
    (pc = "merged" /\ ocr.items = << >> /\ object_boxes # << >>)
        => /\ merge_out.ok
           /\ \A i \in DOMAIN merge_out.elements :
                 LET e == merge_out.elements[i]
                 IN  /\ e.type = "icon" /\ e.interactivity /\ e.content = None
                     /\ \E k \in DOMAIN object_boxes : object_boxes[k] = e.bbox
                     /\ merge_out.box_labels[i] = i - 1

\* C18 as stated: of two input ICON boxes whose standard IoU exceeds the
\* threshold neither is among the surviving ICON boxes of the merge.
C18_ExceedingPairBothRemoved ==
    (pc = "merged" /\ merge_out.ok)
        => \A i, j \in DOMAIN object_boxes :
              (i # j /\ Exceeds(object_boxes[i], object_boxes[j]))
                 => \A k \in DOMAIN merge_out.elements :
                       FromDetector(merge_out.elements[k])
                          => merge_out.elements[k].bbox
                                \notin {object_boxes[i], object_boxes[j]}

\* C19: in every output of N elements the box labels are 0..N-1 in list
\* order, label_coords has exactly the keys "0".."N-1" and the entry of key i
\* is the x, y, width, height of the i-th element, and there is one content
\* line per element, line i carrying id i and the kind and content of the
\* i-th element.
C19_IdsDenseAndAligned ==
    (pc = "merged" /\ merge_out.ok)
        => LET out == merge_out.elements
               N == Len(out)
           IN  /\ DOMAIN merge_out.box_labels = 1..N
               /\ DOMAIN merge_out.content_descriptions = 1..N
               /\ DOMAIN merge_out.label_coords = { Digits[i] : i \in 1..N }
               /\ Cardinality(DOMAIN merge_out.label_coords) = N
               /\ \A i \in 1..N :
                     /\ merge_out.box_labels[i] = i - 1
                     /\ LET c == merge_out.label_coords[Digits[i]]
                        IN  /\ c[1] = out[i].bbox[1] /\ c[2] = out[i].bbox[2]
                            /\ c[1] + c[3] = out[i].bbox[3]
                            /\ c[2] + c[4] = out[i].bbox[4]
                     /\ LET d == merge_out.content_descriptions[i]
                        IN  /\ d.id = i - 1
                            /\ (d.label = "Text") = (out[i].type = "text")
                            /\ (d.label = "Icon") = (out[i].type # "text")
                            /\ out[i].content # None => d.content = out[i].content[1]
                            /\ out[i].content = None => d.content = ""

\* an output of three or more elements that the final sort reordered
C19_Witness ==
    /\ pc = "merged" /\ merge_out.ok
    /\ Len(merge_out.elements) >= 3
    /\ \E i, j \in DOMAIN merge_out.elements :
          /\ i < j
          /\ FromDetector(merge_out.elements[i])
          /\ merge_out.elements[i].content # None
          /\ merge_out.elements[j].content = None
          /\ calculate_box_area(merge_out.elements[i].bbox)
                < calculate_box_area(merge_out.elements[j].bbox)

\* the first position of a box in the detector's list
DetectorIndex(b) ==
    CHOOSE k \in DOMAIN object_boxes :
        object_boxes[k] = b /\ \A l \in 1..(k - 1) : object_boxes[l] # b

C21_MapperErrorCaught ==
    [][ (/\ pc = "dispatch" /\ pc' # "dispatch"
         /\ command.type \in {"click", "type"}
         /\ \/ command.element_id[1] \notin page_state.label_coordinates
            \/ turn'.dispatch_error = "ViewportUnavailable")
        => /\ browser_log' = browser_log
           /\ turn'.dispatch_error \in {"ElementNotFound", "ViewportUnavailable"}
           /\ pc' = "loop"
           /\ ~model_state'.continue_automatically
           /\ turn'.raised = "" ]_vars

\* a click with a next tag on an id the capture does not have has ended the
\* turn
C21_Witness ==
    /\ pc = "loop"
    /\ turn.dispatched = "click"
    /\ turn.dispatch_error = "ElementNotFound"
    /\ command.has_next
    /\ command.element_id[1] \notin page_state.label_coordinates
    /\ ~model_state.continue_automatically

\* the text parts of a message content
TextsOf(content) == { content[i].text : i \in { j \in DOMAIN content : content[j].type = "text" } }

\* C27 as stated: when the human was prompted and entered a text that is not
\* the quit sentinel, the turn builds its outgoing message with that text in
\* it, and the message appended to the history and sent to the model holds
\* it.
C27_HumanInputSent ==
    (/\ turn.prompted
     /\ user_input \notin {"", "q", "Q"}
     /\ turn.branch # ""
     /\ turn.raised # "capture")
        => /\ turn.raised # "KeyError"
           /\ user_input \in TextsOf(message_content)
           /\ pc \in {"process", "dispatch"}
                 => user_input \in TextsOf(Last(messages_for_call).content)

\* C28 as stated: a turn after the first that sends fresh context builds its
\* outgoing message without an error, every placeholder of its template being
\* supplied, and so goes on to the model call.
C28_FreshContextBuilds ==
    (turn.branch = "fresh" /\ turns > 1 /\ turn.raised # "capture")
        => /\ turn.raised = ""
           /\ Placeholders(TemplateFor(FALSE)) \subseteq FormatArguments
           /\ pc \notin {"cleanup", "exited"}

\* C29 as stated: when a CLICK or TYPE directive is dispatched, the capture
\* whose label_coordinates resolve its id is the capture that was sent to the
\* model in the message the directive replies to.
C29_SameCapture ==
    turn.dispatched \in {"click", "type"}
        => turn.sent_page = Some(page_state.page)

(***************************************************************************)
(* Shutdown signals.  BrowserAgent.__init__ installs _handle_shutdown for  *)
(* SIGINT and SIGTERM with signal.signal: the interpreter runs the handler *)
(* in the main thread as soon as the signal is seen, between two bytecode  *)
(* instructions of whatever run is executing.  The handler calls cleanup   *)
(* and then sys.exit(0); SystemExit is not an Exception, so it passes the  *)
(* except clause of _execute_browser_command and both except clauses of    *)
(* run and reaches the finally block of run.                               *)
(***************************************************************************)
\* the collaborator calls of the directive being dispatched that have
\* returned when the handler starts: any prefix of the calls it would make
InterruptedCalls(cmd, ps, viewport_ok, k) ==
    IF cmd.type = "thinking" THEN << >>
    ELSE SubSeq(DispatchCalls(cmd, ps, viewport_ok, Len(Plan(cmd, ps))), 1, k)

\* _handle_shutdown, run when a signal arrives at any point of the session
HandleShutdown ==
    /\ pc \in {"setup", "loop", "build", "call", "process", "dispatch"}
    /\ IF pc = "dispatch"
       THEN \E viewport_ok \in BOOLEAN, k \in 0..Len(Plan(command, page_state)) :
               /\ k <= Len(DispatchCalls(command, page_state, viewport_ok,
                                         Len(Plan(command, page_state))))
               /\ browser_log' =
                     browser_log
                     \o InterruptedCalls(command, page_state, viewport_ok, k)
                     \o <<"cleanup">>
       ELSE browser_log' = Append(browser_log, "cleanup")
    /\ turn' = [turn EXCEPT !.raised = "SystemExit"]
    /\ pc' = "cleanup"
    /\ UNCHANGED <<conversation_history, max_history_size, model_state, user_input,
                   message_content, messages_for_call, response, command,
                   page_state, page, turns>>
    /\ UNCHANGED perception
    /\ UNCHANGED units

SignalNext == Next \/ HandleShutdown

SignalSpec == Init /\ [][SignalNext]_vars

\* the calls that act on the page; the waits only let time pass
Effects(calls) == SelectSeq(calls, LAMBDA c : c \notin {"wait_for_timeout", "wait_for_load",
                                                         "wait_for_load_state"})

\* C26 as stated: when the handler's cleanup begins while a directive is at
\* dispatch, the directive has acted on the page with either none of its
\* calls or all of them: no multi-step directive is left partially applied.
C26_DispatchAtomicUnderSignal ==
    [][ (pc = "dispatch" /\ turn'.raised = "SystemExit" /\ command.type # "thinking")
        => \E done \in {<< >>, Effects(Plan(command, page_state))} :
              Effects(browser_log') = Effects(browser_log) \o done \o <<"cleanup">>
      ]_vars

\* thresholds the merge is asked about: the former and the present value of
\* the agent's call, one half, and process_image's default
Thresholds == { Ratio(1, 10), Ratio(3, 10), Ratio(1, 2), Ratio(7, 10) }

\* two boxes of positive area whose standard IoU exceeds t
ExceedsAt(b1, b2, t) ==
    LET inter == calculate_intersection_area(b1, b2)
    IN  inter * t.den > t.num * (calculate_box_area(b1) + calculate_box_area(b2) - inter)

\* the boxes of the detector that the merge keeps, in the order it keeps them
SurvivingBoxes(t) ==
    LET text_elements == TextElements(ocr)
        filtered == remove_overlapping_boxes(ObjectElements(object_boxes), t, text_elements)
    IN  [k \in 1..(Len(filtered) - Len(text_elements)) |->
            filtered[Len(text_elements) + k].bbox]

MaxCoord == 2

GridBoxes == { b \in (0..MaxCoord) \X (0..MaxCoord) \X (0..MaxCoord) \X (0..MaxCoord) :
                 b[1] <= b[3] /\ b[2] <= b[4] }

\* thresholds is_box_inside is called with: its default 0.95 and values a
\* quotient of two small areas can be equal to
InsideThresholds == { InsideThreshold, Ratio(1, 4), Ratio(1, 2), Ratio(1, 1) }

\* the variables of the session and of the merge, at rest
Idle ==
    /\ conversation_history = << >>
    /\ max_history_size = None
    /\ model_state = ModelState(FALSE, TRUE, FALSE)
    /\ user_input = ""
    /\ message_content = << >>
    /\ messages_for_call = << >>
    /\ response = << >>
    /\ command = NoCommand
    /\ page_state = NoPageState
    /\ page = 0
    /\ browser_log = << >>
    /\ turn = NewTurn
    /\ turns = 0
    /\ ocr = NoOcr
    /\ object_boxes = << >>
    /\ merge_out = NoMerge

GeometryInit ==
    /\ pc = "geometry"
    /\ Idle
    /\ \E box1 \in GridBoxes, box2 \in GridBoxes, threshold \in InsideThresholds,
          return_max \in BOOLEAN :
          geometry = [called |-> "", raised |-> "", box1 |-> box1, box2 |-> box2,
                      threshold |-> threshold, return_max |-> return_max,
                      result |-> None]
    /\ mapper = NoCall
    /\ browser_manager = NoCall

\* is_box_inside(box1, box2, threshold)
IsBoxInside ==
    /\ pc = "geometry"
    /\ geometry.called = ""
    /\ geometry' =
          IF calculate_box_area(geometry.box1) = 0
          THEN [geometry EXCEPT !.called = "is_box_inside",
                                !.raised = "ZeroDivisionError"]
          ELSE [geometry EXCEPT !.called = "is_box_inside",
                                !.result = Some(is_box_inside(geometry.box1, geometry.box2,
                                                              geometry.threshold))]
    /\ pc' = "returned"
    /\ UNCHANGED <<session, perception, mapper, browser_manager>>

\* calculate_iou(box1, box2, return_max)
CalculateIou ==
    /\ pc = "geometry"
    /\ geometry.called = ""
    /\ LET iou == calculate_iou(geometry.box1, geometry.box2, geometry.return_max)
       IN  geometry' =
              IF iou = ZeroDivisionError
              THEN [geometry EXCEPT !.called = "calculate_iou",
                                    !.raised = "ZeroDivisionError"]
              ELSE [geometry EXCEPT !.called = "calculate_iou", !.result = Some(iou)]
    /\ pc' = "returned"
    /\ UNCHANGED <<session, perception, mapper, browser_manager>>

GeometryNext == IsBoxInside \/ CalculateIou

GeometrySpec == GeometryInit /\ [][GeometryNext]_vars

\* C23 as the specification states it: for a box inner of positive area,
\* is_box_inside(inner, outer, t) is true exactly when
\* intersection(inner, outer) >= t * area(inner), the boundary where the
\* quotient equals t included.
C23_InsideIffAtLeastThreshold ==
    (geometry.called = "is_box_inside" /\ calculate_box_area(geometry.box1) > 0)
        => /\ geometry.raised = ""
           /\ geometry.result[1] <=>
                 (calculate_intersection_area(geometry.box1, geometry.box2)
                      * geometry.threshold.den
                  >= geometry.threshold.num * calculate_box_area(geometry.box1))

\* C23 as the code has it: for a box inner of positive area,
\* is_box_inside(inner, outer, t) is true exactly when
\* intersection(inner, outer) > t * area(inner); where the quotient equals t
\* the answer is false.
C23_InsideIffAboveThreshold ==
    (geometry.called = "is_box_inside" /\ calculate_box_area(geometry.box1) > 0)
        => /\ geometry.raised = ""
           /\ geometry.result[1] <=>
                 (calculate_intersection_area(geometry.box1, geometry.box2)
                      * geometry.threshold.den
                  > geometry.threshold.num * calculate_box_area(geometry.box1))

\* the quotient equals the threshold, the answer is false, and the relation
\* is not symmetric here: the outer box is inside the inner one
C23_Witness ==
    /\ geometry.called = "is_box_inside"
    /\ calculate_box_area(geometry.box1) > 0
    /\ calculate_box_area(geometry.box2) > 0
    /\ calculate_intersection_area(geometry.box1, geometry.box2) * geometry.threshold.den
          = geometry.threshold.num * calculate_box_area(geometry.box1)
    /\ geometry.result = Some(FALSE)
    /\ is_box_inside(geometry.box2, geometry.box1, geometry.threshold)

\* C24: for every box a with x1 <= x2 and y1 <= y2, boxes of area 0 included,
\* calculate_iou(a, a, false) returns, and returns 1; and where
\* calculate_iou(a, b, false) returns, it equals calculate_iou(b, a, false).
C24_IouReflexiveSymmetric ==
    (geometry.called = "calculate_iou" /\ ~geometry.return_max)
        => /\ geometry.box1 = geometry.box2
                => /\ geometry.raised = ""
                   /\ geometry.result[1].num = geometry.result[1].den
           /\ geometry.raised = ""
                => LET other == calculate_iou(geometry.box2, geometry.box1, FALSE)
                   IN  /\ other # ZeroDivisionError
                       /\ other.num * geometry.result[1].den
                             = geometry.result[1].num * other.den

(***************************************************************************)
(* BrowserManager on its own (browser_agent/browser.py): setup creates the *)
(* driver, the context and the page in this order and may raise on the     *)
(* way; cleanup closes them in the reverse order.  What each of the three  *)
(* closing calls does is the browser's choice, drawn at the start: it      *)
(* returns, raises a playwright Error, or raises another Exception.        *)
(***************************************************************************)
CloseOutcomes == {"returns", "PlaywrightError", "Exception"}

\* BrowserManager.__init__: page, context and playwright are None
BrowserInit ==
    /\ pc = "browser"
    /\ Idle
    /\ geometry = NoCall
    /\ mapper = NoCall
    /\ \E page_close \in CloseOutcomes, context_close \in CloseOutcomes,
          playwright_stop \in CloseOutcomes :
          browser_manager = [called |-> "", raised |-> "",
                             page |-> FALSE, context |-> FALSE, playwright |-> FALSE,
                             page_close |-> page_close,
                             context_close |-> context_close,
                             playwright_stop |-> playwright_stop,
                             calls |-> << >>]

\* setup: sync_playwright().start(), launch_persistent_context(), new_page(),
\* then the page is prepared and the start page loaded; reached is the
\* number of the first three that returned before a call raised
BrowserSetup ==
    /\ pc = "browser"
    /\ browser_manager.called = ""
    /\ \E reached \in 0..3, raised \in {"", "Exception"} :
          /\ reached < 3 => raised = "Exception"
          /\ browser_manager' = [browser_manager EXCEPT
                                 !.called = "setup",
                                 !.raised = raised,
                                 !.playwright = reached >= 1,
                                 !.context = reached >= 2,
                                 !.page = reached >= 3]
    /\ pc' = "browser_ready"
    /\ UNCHANGED <<session, perception, geometry, mapper>>

\* the calls cleanup makes, in order, on a manager m.  A step is skipped when
\* its resource is None; page.close and context.close are wrapped in
\* `except PlaywrightError`, playwright.stop in `except Exception`, so another
\* Exception from one of the first two leaves the sequence for the outer
\* handler.
CleanupCalls(m) ==
    LET first == IF m.page THEN <<"page.close">> ELSE << >>
        second == IF m.context THEN <<"context.close">> ELSE << >>
        third == IF m.playwright THEN <<"playwright.stop">> ELSE << >>
    IN  IF m.page /\ m.page_close = "Exception" THEN first
        ELSE IF m.context /\ m.context_close = "Exception" THEN first \o second
        ELSE first \o second \o third

InSeq(x, s) == \E k \in DOMAIN s : s[k] = x

\* cleanup: a resource is set to None in the finally of its step, so it is
\* None afterwards exactly if its step was entered; no exception leaves
\* cleanup (the outer `except Exception` logs it)
BrowserCleanup ==
    /\ pc = "browser_ready"
    /\ LET calls == CleanupCalls(browser_manager)
       IN  browser_manager' = [browser_manager EXCEPT
                                  !.called = "cleanup",
                                  !.raised = "",
                                  !.calls = calls,
                                  !.page = @ /\ ~InSeq("page.close", calls),
                                  !.context = @ /\ ~InSeq("context.close", calls),
                                  !.playwright = @ /\ ~InSeq("playwright.stop", calls)]
    /\ pc' = "browser_closed"
    /\ UNCHANGED <<session, perception, geometry, mapper>>

BrowserNext == BrowserSetup \/ BrowserCleanup

BrowserSpec == BrowserInit /\ [][BrowserNext]_vars

\* C25: in cleanup each of the three steps (close the page, close the
\* context, stop the driver) is attempted whenever its resource exists,
\* whatever kind of error an earlier step raised.
C25_EveryStepAttempted ==
    [][ (pc = "browser_ready" /\ pc' = "browser_closed")
            => /\ browser_manager.page => InSeq("page.close", browser_manager'.calls)
               /\ browser_manager.context
                     => InSeq("context.close", browser_manager'.calls)
               /\ browser_manager.playwright
                     => InSeq("playwright.stop", browser_manager'.calls) ]_vars

(***************************************************************************)
(* The Coordinate Mapper on its own                                        *)
(* (BrowserInteraction.find_element_coordinates).  The boxes, the          *)
(* screenshot and the viewport have integer sizes; the centre of a box is  *)
(* then a multiple of 1/2, which a double holds exactly, and is kept as    *)
(* twice its value.  The two scale factors are doubles: viewport /         *)
(* screenshot rounded to 53 significant bits, to the nearest, ties to      *)
(* even.  The product centre * scale is rounded the same way and then      *)
(* truncated by int().  Both roundings are computed here on integers.      *)
(***************************************************************************)
\* significant bits of a Python float
SignificandBits == 53

RECURSIVE Pow2(_)
Pow2(e) == IF e = 0 THEN 1 ELSE 2 * Pow2(e - 1)

\* 2^e mod m
RECURSIVE Pow2Mod(_, _)
Pow2Mod(e, m) == IF e = 0 THEN 1 % m ELSE (2 * Pow2Mod(e - 1, m)) % m

\* the k with 2^k <= num / den < 2^(k+1), for num > 0 and den > 0
RECURSIVE FloorLog2(_, _)
FloorLog2(num, den) ==
    IF num >= 2 * den THEN FloorLog2(num, 2 * den) + 1
    ELSE IF num < den THEN FloorLog2(2 * num, den) - 1
    ELSE 0

\* the double a / b is m / 2^p with m = a * 2^p / b rounded to an integer of
\* SignificandBits bits; this is p
ScaleExponent(a, b) == SignificandBits - 1 - FloorLog2(a, b)

\* (a * 2^p) mod b: what the exact a * 2^p / b has beyond its integer part,
\* in units of 1/b
ScaleRemainder(a, b) == ((a % b) * Pow2Mod(ScaleExponent(a, b), b)) % b

\* the double a / b is below the exact a / b: the remainder is rounded off
\* (below one half, or one half with an even integer part)
ScaleRoundsDown(a, b) ==
    LET r == ScaleRemainder(a, b)
        integer_part_odd ==
            (((a % (2 * b)) * Pow2Mod(ScaleExponent(a, b), 2 * b)) % (2 * b)) \div b = 1
    IN  /\ r > 0
        /\ \/ 2 * r < b
           \/ 2 * r = b /\ ~integer_part_odd

\* int(center * scale) with center = center2 / 2 and scale the double
\* viewport / screenshot.  The exact product center2 * viewport / (2 * screenshot)
\* has the integer part n.  Where it is not an integer, the two roundings are
\* too small to reach n or n + 1 and int() gives n.  Where it is the integer
\* n > 0 and the scale was rounded down, the product in exact arithmetic is
\* n - center2 * r / (2 * screenshot * 2^p); it is rounded back to n unless it
\* lies beyond the middle between n and the double before n, and then int()
\* gives n - 1.
ScaleAndTruncate(center2, viewport, screenshot) ==
    LET n == (center2 * viewport) \div (2 * screenshot)
        e == FloorLog2(n, 1)
        t == e - FloorLog2(viewport, screenshot) - (IF n = Pow2(e) THEN 1 ELSE 0)
        loss == center2 * ScaleRemainder(viewport, screenshot)
                   * (IF t < 0 THEN Pow2(0 - t) ELSE 1)
        half_step == screenshot * (IF t > 0 THEN Pow2(t) ELSE 1)
    IN  IF (center2 * viewport) % (2 * screenshot) # 0 \/ n = 0 THEN n
        ELSE IF ScaleRoundsDown(viewport, screenshot) /\ loss > half_step THEN n - 1
        ELSE n

\* twice the centre of a box [x1, y1, x2, y2] on an axis (1: x, 2: y), the
\* branch of find_element_coordinates for a bbox_format other than "xywh"
CenterTwice_xyxy(box, axis) ==
    box[axis] + box[axis + 2]

\* twice the centre of an xywh box on an axis (1: x, 2: y):
\* box[0] + box[2] / 2 and box[1] + box[3] / 2
CenterTwice(box, axis) ==
    2 * box[axis] + box[axis + 2]

\* label_coordinates maps ids to xywh boxes; screenshot is (width, height);
\* viewport is page.viewport_size, None or (width, height)
find_element_coordinates(element_id, label_coordinates, screenshot, viewport) ==
    IF element_id \notin DOMAIN label_coordinates
    THEN [raised |-> "ElementNotFound", point |-> None]
    ELSE IF viewport = None
    THEN [raised |-> "ViewportUnavailable", point |-> None]
    ELSE LET box == label_coordinates[element_id]
         IN  [raised |-> "",
              point |-> Some(<<ScaleAndTruncate(CenterTwice(box, 1),
                                                viewport[1][1], screenshot[1]),
                               ScaleAndTruncate(CenterTwice(box, 2),
                                                viewport[1][2], screenshot[2])>>)]

\* corners and extents of the boxes drawn freely
MaxOrigin == 5

MaxExtent == 2

\* the box of the specification's example, centred at (500, 400), and the
\* small boxes
MapperBoxes ==
    { <<450, 350, 100, 100>> } \cup
    ((0..MaxOrigin) \X (0..MaxOrigin) \X (1..MaxExtent) \X (1..MaxExtent))

Screenshots == { <<1000, 800>>, <<11, 11>>, <<11, 8>> }

Viewports == { <<500, 400>>, <<30, 30>>, <<30, 4>> }

MapperInit ==
    /\ pc = "mapper"
    /\ Idle
    /\ geometry = NoCall
    /\ browser_manager = NoCall
    /\ \E box \in MapperBoxes, labelled \in 1..2, element_id \in {"0", "1", "2"},
          screenshot \in Screenshots,
          viewport \in {None} \cup { Some(v) : v \in Viewports } :
          mapper = [called |-> "", raised |-> "",
                    element_id |-> element_id,
                    label_coordinates |->
                        IF labelled = 1 THEN [id \in {"0"} |-> box]
                        ELSE [id \in {"0", "1"} |->
                                 IF id = "0" THEN <<0, 0, 1, 1>> ELSE box],
                    screenshot |-> screenshot,
                    viewport |-> viewport,
                    point |-> None]

FindElementCoordinates ==
    /\ pc = "mapper"
    /\ mapper.called = ""
    /\ LET out == find_element_coordinates(mapper.element_id, mapper.label_coordinates,
                                           mapper.screenshot, mapper.viewport)
       IN  mapper' = [mapper EXCEPT !.called = "find_element_coordinates",
                                    !.raised = out.raised,
                                    !.point = out.point]
    /\ pc' = "returned"
    /\ UNCHANGED <<session, perception, geometry, browser_manager>>

MapperNext == FindElementCoordinates

MapperSpec == MapperInit /\ [][MapperNext]_vars

\* twice x + w/2 (axis 1) or y + h/2 (axis 2) of the box the id names
TwiceCentre(axis) ==
    LET box == mapper.label_coordinates[mapper.element_id]
    IN  box[axis] + box[axis] + box[axis + 2]

\* the exact trunc(centre * viewport / screenshot) on an axis (1: x, 2: y)
ExactPoint(axis) ==
    (TwiceCentre(axis) * mapper.viewport[1][axis]) \div (2 * mapper.screenshot[axis])

\* the exact centre * viewport / screenshot on an axis is an integer
ExactIsInteger(axis) ==
    (TwiceCentre(axis) * mapper.viewport[1][axis]) % (2 * mapper.screenshot[axis]) = 0

\* the box lies within the screenshot on an axis
WithinScreenshot(axis) ==
    LET box == mapper.label_coordinates[mapper.element_id]
    IN  box[axis] >= 0 /\ box[axis] + box[axis + 2] <= mapper.screenshot[axis]

RECURSIVE GCD(_, _)
GCD(a, b) == IF b = 0 THEN a ELSE GCD(b, a % b)

\* viewport / screenshot on an axis is a binary fraction, which a double holds
\* exactly
ScaleIsBinary(axis) ==
    LET d == mapper.screenshot[axis] \div GCD(mapper.viewport[1][axis],
                                              mapper.screenshot[axis])
    IN  d = Pow2(FloorLog2(d, 1))

\* the call returned a point
MapperReturned ==
    /\ mapper.called = "find_element_coordinates"
    /\ mapper.raised = ""

\* the specification's example
MapperExample ==
    /\ MapperReturned
    /\ mapper.screenshot = <<1000, 800>>
    /\ mapper.viewport = Some(<<500, 400>>)
    /\ TwiceCentre(1) = 2 * 500
    /\ TwiceCentre(2) = 2 * 400

====
